---- MODULE Spec2Model ----
(***************************************************************************)
(* Model of lutris/util/wine/discordipc.py: the release-metadata cache     *)
(* (_download_latest_release_json), the atomic file writer                 *)
(* (safe_write_file), the archive installer                                *)
(* (download_and_extract_tar_file) and the promotion of the `latest`       *)
(* symlink with garbage collection of the superseded directory (download). *)
(*                                                                         *)
(* Independent OS processes run download() on one runtime directory; each  *)
(* system call of the source is one step, so every interleaving of the     *)
(* calls of different processes is explored.  Operations that the source   *)
(* guards with try/except or try/finally may fail.  A process may also     *)
(* crash between two steps.                                                *)
(***************************************************************************)
EXTENDS Integers, FiniteSets, Sequences, TLC

\* ------------------------------------------------------------------ bounds
Procs == {"p1", "p2"}            \* the processes of Spec
SeqProcs == {"p1"}               \* the single process of SpecSeq
MaxCalls == 2                    \* download() calls started in one behaviour
MaxTicks == 1                    \* clock advances in one behaviour
MaxReplace == 1                  \* times another writer replaces latest.json

\* --------------------------------------------------------------- constants
CACHE_TIME == 86400              \* Winestreamproxy._CACHE_TIME
TickLen == CACHE_TIME \div 2     \* one clock advance, half the cache window
StartTime == 2 * CACHE_TIME      \* time.time() in the initial state

Tags == {"v1", "v2"}             \* version tags with an extracted.<tag> name

\* Directories `latest` can be made to point at besides extracted.<tag>:
\*   "outside"  a directory named extracted.* whose parent is not the runtime
\*              subdirectory (reached directly or through further symlinks)
\*   "plain"    a directory of the runtime subdirectory whose name does not
\*              start with `extracted.`
Foreign == {"outside", "plain"}
Paths == Tags \cup Foreign

\* "alias": `latest` spells extracted.v1 differently from extract_to (a
\* redundant path component), so the strings of line 202 differ while
\* os.path.realpath and os.path.samefile see the same directory.
Tampered == Foreign \cup {"alias"}

\* line 205: os.path.realpath(old_dir).
RealPath(l) == IF l = "alias" THEN "v1" ELSE l

\* line 212: samefile(dirname(old_dir_realpath), runtime_subdir()).
ParentIsRuntime(path) == path \in Tags \cup {"plain"}

\* line 213: basename(old_dir_realpath).startswith('extracted.').
HasPrefix(path) == path \in Tags \cup {"outside"}

Abs(x) == IF x < 0 THEN 0 - x ELSE x

\* ---------------------------------------------------------------- documents
\* A JSON document as stored in latest.json or sent by the release API.
\*   enc   "obj": a JSON object; "str": a JSON string whose text is itself
\*         the JSON object (the only input json.loads of line 190 accepts
\*         after json.load of line 157/181 has decoded the file once)
\*   tag   the value of "tag_name", or "missing" when the key is absent
\*   asset TRUE iff some asset name matches _ASSET_NAME_REGEX
NoDoc == [enc |-> "none", tag |-> "none", asset |-> FALSE]
Doc(enc, tag, asset) == [enc |-> enc, tag |-> tag, asset |-> asset]

\* What request.get() of line 169 can bring: a transport failure, or a
\* document that is valid, has an empty tag, lacks the tag, lacks a matching
\* asset, or is a JSON string instead of an object.
FetchFailed == [enc |-> "fail", tag |-> "none", asset |-> FALSE]
Responses ==
    {FetchFailed, Doc("obj", "v1", TRUE), Doc("obj", "v2", TRUE), Doc("obj", "", TRUE),
     Doc("obj", "missing", TRUE), Doc("obj", "v1", FALSE), Doc("str", "v1", TRUE)}

\* What latest.json can hold when the first process starts: a document this
\* program cached, or a string-encoded document left by another writer.
InitDocs ==
    {Doc("obj", "v1", TRUE), Doc("str", "v1", TRUE), Doc("str", "v2", TRUE),
     Doc("str", "v1", FALSE), Doc("str", "missing", TRUE)}
\* What another writer of latest.json replaces it with.
ReplaceDocs == {Doc("str", "v1", TRUE), Doc("str", "v2", TRUE)}

\* Python values that travel between the functions.
PyNone == [py |-> "None", tag |-> "none", asset |-> FALSE]

\* json.load(file) / request.json: one level of JSON decoding.
json_load(doc) ==
    [py |-> IF doc.enc = "obj" THEN "dict" ELSE "str", tag |-> doc.tag, asset |-> doc.asset]

\* json.loads(value): accepts str only; a dict or None raises TypeError.
json_loads_ok(value) == value.py = "str"
json_loads(value) == [py |-> "dict", tag |-> value.tag, asset |-> value.asset]

\* _get_download_url_from_json(data): ValueError unless an asset matches.
get_download_url_ok(data) == data.asset

\* _validate_release_info(data): the exception it raises, "none" if it passes.
\* data['tag_name'] on a str raises TypeError, on a dict without the key
\* KeyError; an empty tag passes.  The function has no return statement.
validate_release_info(data) ==
    IF data.py # "dict" THEN "TypeError"
    ELSE IF data.tag = "missing" THEN "KeyError"
    ELSE IF ~get_download_url_ok(data) THEN "ValueError"
    ELSE "none"

\* --------------------------------------------------------------- cache file
\* latest.json.  torn: the directory entry already names the new file but
\* the writer's buffered content has not reached it yet (rename precedes the
\* close of the with-block, lines 75-83); by: the process whose open file
\* object it is.  readable: open() succeeds; every writer creates the file
\* readable (line 77: mode 0644).
NoFile == [present |-> FALSE, doc |-> NoDoc, mtime |-> 0, readable |-> FALSE,
           torn |-> FALSE, by |-> "none"]
File(doc, mtime, readable, torn, by) ==
    [present |-> TRUE, doc |-> doc, mtime |-> mtime, readable |-> readable,
     torn |-> torn, by |-> by]

\* line 156: abs(time.time() - st_mtime) < _CACHE_TIME
CacheIsFresh(file, time) == Abs(time - file.mtime) < CACHE_TIME

VARIABLES
    proc,       \* per process: program counter, locals and call history
    cache,      \* the file latest.json
    now,        \* time.time()
    dirs,       \* extracted.<tag> and the foreign directories: "absent" or
                \* "complete" (a foreign directory is complete when it exists)
    link,       \* target of the symlink `latest`: a tag, a tampered target,
                \* or "none" if absent
    tmplink,    \* latest.<tag> exists (it always targets extracted.<tag>)
    orphans,    \* a crashed process left a staging directory or temp file
    calls,      \* download() calls started so far
    replaced    \* cache replacements by other writers so far

vars == <<proc, cache, now, dirs, link, tmplink, orphans, calls, replaced>>

\* ------------------------------------------------------------ process state
\* pc        the next source line to run ("idle" before the first call)
\* ret       the value _download_latest_release_json returned / line 190 parsed
\* exc       the last exception caught or raised ("none" if none)
\* content   request.content waiting to be written to latest.json
\* tag_name  line 191
\* old_dir   line 201 (the link target read, or "none")
\* staging   the mkdtemp directory of line 92
\* tmpfile   the mkstemp file of line 72
\* history of the current call: net (network requests made), at (the step at
\* which it raised or crashed), faulted (an operation failed), startLink
\* (link when the call began), startEmpty (the runtime root was empty then),
\* prevOk (tag of the process's preceding call if that call returned
\* normally), hit (the call was answered from the fresh cache), startTmp
\* (the tags whose latest.<tag> existed when the call began).
IdleProc ==
    [pc |-> "idle", ret |-> PyNone, exc |-> "none", content |-> NoDoc,
     tag_name |-> "none", old_dir |-> "none", staging |-> "absent",
     tmpfile |-> "absent", net |-> 0, at |-> "none", faulted |-> FALSE,
     startLink |-> "none", startEmpty |-> FALSE, prevOk |-> "none", hit |-> FALSE,
     startTmp |-> {}]

InitMtimes == {StartTime - TickLen, StartTime - CACHE_TIME, StartTime + CACHE_TIME}
InitCaches == {NoFile} \cup {File(d, m, TRUE, FALSE, "none") : d \in InitDocs, m \in InitMtimes}

\* The runtime subdirectory before the first call, `latest` left aside:
\* any of the extracted.<tag> directories is installed, the foreign
\* directories exist.
InitFiles ==
    /\ proc = [p \in Procs |-> IdleProc]
    /\ cache \in InitCaches
    /\ now = StartTime
    /\ dirs \in {d \in [Paths -> {"absent", "complete"}] : \A f \in Foreign : d[f] = "complete"}
    /\ tmplink = [t \in Tags |-> FALSE]
    /\ orphans = FALSE
    /\ calls = 0
    /\ replaced = 0

\* `latest` is absent or as an earlier download() left it.
Init ==
    /\ InitFiles
    /\ link \in {"none"} \cup {t \in Tags : dirs[t] = "complete"}

Upd(p, r) == proc' = [proc EXCEPT ![p] = r]

\* An exception leaves download(): the process stops at this step.
Raise(r, e) ==
    [r EXCEPT !.pc = "raised", !.exc = e, !.at = r.pc, !.ret = PyNone,
              !.content = NoDoc, !.old_dir = "none"]

\* download() returns normally.
Return(r) == [r EXCEPT !.pc = "done", !.ret = PyNone, !.old_dir = "none"]

RootEmpty ==
    /\ ~cache.present
    /\ link = "none"
    /\ \A t \in Tags : dirs[t] = "absent" /\ ~tmplink[t]

\* ------------------------------------------ _download_latest_release_json
\* lines 154-163: the cached document is returned when the file opens and is
\* fresh; FileNotFoundError and OSError fall through to the download; any
\* other exception of json.load (a file without a complete document) leaves
\* the function.
OpenCache(r, file, time) ==
    IF ~file.present \/ ~file.readable THEN [r EXCEPT !.pc = "fetch"]
    ELSE IF ~CacheIsFresh(file, time) THEN [r EXCEPT !.pc = "fetch"]
    ELSE IF file.torn THEN Raise([r EXCEPT !.pc = "open_cache"], "JSONDecodeError")
    ELSE [r EXCEPT !.pc = "loads", !.ret = json_load(file.doc), !.hit = TRUE]

\* line 189 and lines 153-163: a call of download() starts.
download_begin(p) ==
    /\ proc[p].pc \in {"idle", "done", "raised", "crashed"}
    /\ calls < MaxCalls
    /\ calls' = calls + 1
    /\ orphans' = (orphans \/ proc[p].staging # "absent" \/ proc[p].tmpfile # "absent")
    /\ Upd(p, OpenCache(
            [IdleProc EXCEPT
                !.startLink = link, !.startEmpty = RootEmpty,
                !.startTmp = {t \in Tags : tmplink[t]},
                !.prevOk = IF proc[p].pc = "done" THEN proc[p].tag_name ELSE "none"],
            cache, now))
    /\ UNCHANGED <<cache, now, dirs, link, tmplink, replaced>>

\* lines 165-170 and 173-175: request.get() and _validate_release_info.
\* `data` of line 170 is None: _validate_release_info returns nothing.
Fetched(r, resp) ==
    IF resp = FetchFailed
    THEN [r EXCEPT !.pc = "fallback", !.exc = "FetchError", !.net = @ + 1, !.faulted = TRUE]
    ELSE IF validate_release_info(json_load(resp)) # "none"
    THEN [r EXCEPT !.pc = "fallback", !.exc = validate_release_info(json_load(resp)),
                   !.net = @ + 1, !.faulted = TRUE]
    ELSE [r EXCEPT !.pc = "mkstemp", !.content = resp, !.net = @ + 1]

fetch(p) ==
    /\ proc[p].pc = "fetch"
    /\ \E resp \in Responses : Upd(p, Fetched(proc[p], resp))
    /\ UNCHANGED <<cache, now, dirs, link, tmplink, orphans, calls, replaced>>

\* Mutant of Fallback: a bare `raise` in the handler of line 182 lets the
\* secondary FileNotFoundError out instead of the saved exception.
FallbackRaisesSecondary(r, file) ==
    IF ~file.present THEN Raise(r, "FileNotFoundError")
    ELSE IF ~file.readable THEN Raise(r, r.exc)
    ELSE IF file.torn THEN Raise(r, "JSONDecodeError")
    ELSE [r EXCEPT !.pc = "loads", !.ret = json_load(file.doc)]

\* lines 177-186: the stale fallback.  Without a file that opens, the saved
\* exception is raised; a file without a complete document makes json.load
\* raise, which no handler catches.
Fallback(r, file) ==
    IF ~file.present \/ ~file.readable THEN Raise(r, r.exc)
    ELSE IF file.torn THEN Raise(r, "JSONDecodeError")
    ELSE [r EXCEPT !.pc = "loads", !.ret = json_load(file.doc)]

fallback(p) ==
    /\ proc[p].pc = "fallback"
    /\ Upd(p, Fallback(proc[p], cache))
    /\ UNCHANGED <<cache, now, dirs, link, tmplink, orphans, calls, replaced>>

\* ---------------------------------------------------------- safe_write_file
\* line 72: tempfile.mkstemp, outside the try block.
mkstemp(p) ==
    /\ proc[p].pc = "mkstemp"
    /\ \/ Upd(p, [proc[p] EXCEPT !.pc = "write", !.tmpfile = "empty"])
       \/ Upd(p, [proc[p] EXCEPT !.pc = "fallback", !.exc = "OSError", !.content = NoDoc,
                                 !.faulted = TRUE])
    /\ UNCHANGED <<cache, now, dirs, link, tmplink, orphans, calls, replaced>>

\* line 76: file.write(content) on a buffered file object: the bytes reach
\* the file now ("flushed") or stay in the buffer until the close
\* ("buffered"); a failed write leaves part of them.
write(p) ==
    /\ proc[p].pc = "write"
    /\ \/ \E t \in {"flushed", "buffered"} :
            Upd(p, [proc[p] EXCEPT !.pc = "chmod", !.tmpfile = t])
       \/ Upd(p, [proc[p] EXCEPT !.pc = "unlink", !.tmpfile = "partial", !.faulted = TRUE])
    /\ UNCHANGED <<cache, now, dirs, link, tmplink, orphans, calls, replaced>>

\* lines 77-81: os.chmod(temp_fd, 0644).
chmod(p) ==
    /\ proc[p].pc = "chmod"
    /\ \/ Upd(p, [proc[p] EXCEPT !.pc = "rename"])
       \/ Upd(p, [proc[p] EXCEPT !.pc = "unlink", !.faulted = TRUE])
    /\ UNCHANGED <<cache, now, dirs, link, tmplink, orphans, calls, replaced>>

\* line 82: os.rename(temp_path, path), inside the with-block: the file
\* object is still open, so buffered bytes are not in the file yet.
Renamed(r, p, time) ==
    File(r.content, time, TRUE, r.tmpfile = "buffered",
         IF r.tmpfile = "buffered" THEN p ELSE "none")

rename(p) ==
    /\ proc[p].pc = "rename"
    /\ \/ /\ cache' = Renamed(proc[p], p, now)
          /\ Upd(p, [proc[p] EXCEPT !.pc = "close", !.tmpfile = "absent"])
       \/ /\ Upd(p, [proc[p] EXCEPT !.pc = "unlink", !.faulted = TRUE])
          /\ UNCHANGED cache
    /\ UNCHANGED <<now, dirs, link, tmplink, orphans, calls, replaced>>

\* lines 170 and 172: `data` is what _validate_release_info returned, which
\* is None; line 172 returns it.
Closed(r) == [r EXCEPT !.pc = "loads", !.ret = PyNone, !.content = NoDoc]

\* lines 83-84 and 172: the with-block closes the file, which flushes the
\* buffer into the file the process renamed (if it is still at `path`);
\* safe_write_file returns and line 172 returns data.
close(p) ==
    /\ proc[p].pc = "close"
    /\ cache' = IF cache.present /\ cache.torn /\ cache.by = p
                THEN [cache EXCEPT !.torn = FALSE, !.by = "none", !.mtime = now]
                ELSE cache
    /\ Upd(p, Closed(proc[p]))
    /\ UNCHANGED <<now, dirs, link, tmplink, orphans, calls, replaced>>

\* lines 84-86 and 173-175: a failure inside the try block unlinks the
\* temporary file; the exception is caught by line 173.
unlink(p) ==
    /\ proc[p].pc = "unlink"
    /\ Upd(p, [proc[p] EXCEPT !.pc = "fallback", !.exc = "OSError", !.tmpfile = "absent",
                              !.content = NoDoc])
    /\ UNCHANGED <<cache, now, dirs, link, tmplink, orphans, calls, replaced>>

\* ------------------------------------------------------------------ download
\* lines 190-193: json.loads of the returned value, then ['tag_name'].
Loaded(r) ==
    IF ~json_loads_ok(r.ret) THEN Raise(r, "TypeError")
    ELSE IF r.ret.tag = "missing" THEN Raise(r, "KeyError")
    ELSE [r EXCEPT !.pc = "exists", !.ret = json_loads(r.ret), !.tag_name = r.ret.tag]

loads(p) ==
    /\ proc[p].pc = "loads"
    /\ Upd(p, Loaded(proc[p]))
    /\ UNCHANGED <<cache, now, dirs, link, tmplink, orphans, calls, replaced>>

\* lines 195-198: os.path.exists(extract_to); the download url is looked up
\* only when the directory is missing.
Exists(r, d) ==
    IF d[r.tag_name] # "absent" THEN [r EXCEPT !.pc = "readlink", !.ret = PyNone]
    ELSE IF ~get_download_url_ok(r.ret) THEN Raise(r, "ValueError")
    ELSE [r EXCEPT !.pc = "mkdtemp", !.ret = PyNone]

exists(p) ==
    /\ proc[p].pc = "exists"
    /\ Upd(p, Exists(proc[p], dirs))
    /\ UNCHANGED <<cache, now, dirs, link, tmplink, orphans, calls, replaced>>

\* ------------------------------------------- download_and_extract_tar_file
\* line 92: tempfile.mkdtemp, outside the try block.
mkdtemp(p) ==
    /\ proc[p].pc = "mkdtemp"
    /\ \/ Upd(p, [proc[p] EXCEPT !.pc = "get", !.staging = "empty"])
       \/ Upd(p, [Raise(proc[p], "OSError") EXCEPT !.faulted = TRUE])
    /\ UNCHANGED <<cache, now, dirs, link, tmplink, orphans, calls, replaced>>

\* line 95: Request(url).get(), the archive download.
get(p) ==
    /\ proc[p].pc = "get"
    /\ \/ Upd(p, [proc[p] EXCEPT !.pc = "extractall", !.net = @ + 1])
       \/ Upd(p, [proc[p] EXCEPT !.pc = "rmtree", !.net = @ + 1, !.exc = "FetchError",
                                 !.at = "get", !.faulted = TRUE])
    /\ UNCHANGED <<cache, now, dirs, link, tmplink, orphans, calls, replaced>>

\* lines 96-97: tarfile.open and tar.extractall(temp_dir).
extractall(p) ==
    /\ proc[p].pc = "extractall"
    /\ \/ Upd(p, [proc[p] EXCEPT !.pc = "chmod_dir", !.staging = "complete"])
       \/ Upd(p, [proc[p] EXCEPT !.pc = "rmtree", !.staging = "partial",
                                 !.exc = "ExtractionError", !.at = "extractall",
                                 !.faulted = TRUE])
    /\ UNCHANGED <<cache, now, dirs, link, tmplink, orphans, calls, replaced>>

\* lines 98-105: os.chmod(temp_dir, 0755).
chmod_dir(p) ==
    /\ proc[p].pc = "chmod_dir"
    /\ \/ Upd(p, [proc[p] EXCEPT !.pc = "rename_dir"])
       \/ Upd(p, [proc[p] EXCEPT !.pc = "rmtree", !.exc = "OSError", !.at = "chmod_dir",
                                 !.faulted = TRUE])
    /\ UNCHANGED <<cache, now, dirs, link, tmplink, orphans, calls, replaced>>

\* line 106: os.rename(temp_dir, extract_to).  Renaming a directory onto an
\* existing non-empty directory fails (ENOTEMPTY).
RenameDirOk(d, tag) == d[tag] = "absent"
DirsAfterRename(d, tag, staging) == [d EXCEPT ![tag] = staging]

rename_dir(p) ==
    /\ proc[p].pc = "rename_dir"
    /\ \/ /\ RenameDirOk(dirs, proc[p].tag_name)
          /\ dirs' = DirsAfterRename(dirs, proc[p].tag_name, proc[p].staging)
          /\ Upd(p, [proc[p] EXCEPT !.pc = "readlink", !.staging = "absent"])
       \/ /\ Upd(p, [proc[p] EXCEPT !.pc = "rmtree", !.exc = "OSError", !.at = "rename_dir",
                                    !.faulted = RenameDirOk(dirs, proc[p].tag_name)])
          /\ UNCHANGED dirs
    /\ UNCHANGED <<cache, now, link, tmplink, orphans, calls, replaced>>

\* Mutant of StagingAfterCleanup: the finally block does not remove the
\* staging directory.
StagingLeftBehind(staging) == staging

\* lines 108-110: the finally block removes the staging directory and the
\* exception leaves download().
StagingAfterCleanup(staging) == "absent"

rmtree(p) ==
    /\ proc[p].pc = "rmtree"
    /\ Upd(p, [proc[p] EXCEPT !.pc = "raised",
                              !.staging = StagingAfterCleanup(proc[p].staging)])
    /\ UNCHANGED <<cache, now, dirs, link, tmplink, orphans, calls, replaced>>

\* ------------------------------------------------------------- promotion
\* Mutant of Readlink: the early return of lines 202-203 is missing.
ReadlinkNoShortcut(r, l) == [r EXCEPT !.pc = "remove_if_exists", !.old_dir = l]

\* lines 201-205: try_readlink(latest); an unchanged target returns.
Readlink(r, l) ==
    IF l = r.tag_name THEN Return(r)
    ELSE [r EXCEPT !.pc = "remove_if_exists", !.old_dir = l]

readlink(p) ==
    /\ proc[p].pc = "readlink"
    /\ Upd(p, Readlink(proc[p], link))
    /\ UNCHANGED <<cache, now, dirs, link, tmplink, orphans, calls, replaced>>

\* Mutant of LinkAfterRemove: line 207 removes `latest` itself before the
\* new link is in place.
LinkRemovedFirst(l, tag) == "none"

\* line 207: remove_if_exists(latest.<tag>) removes the temporary name and
\* leaves `latest` alone.
LinkAfterRemove(l, tag) == l

\* Mutant of TmpAfterRemove: line 207 is missing, a leftover latest.<tag>
\* stays.
TmpLeftInPlace(t, tag) == t

\* lines 122-127: os.remove(latest.<tag>); a missing name is not an error.
TmpAfterRemove(t, tag) == [t EXCEPT ![tag] = FALSE]

remove_if_exists(p) ==
    /\ proc[p].pc = "remove_if_exists"
    /\ tmplink' = TmpAfterRemove(tmplink, proc[p].tag_name)
    /\ link' = LinkAfterRemove(link, proc[p].tag_name)
    /\ Upd(p, [proc[p] EXCEPT !.pc = "symlink"])
    /\ UNCHANGED <<cache, now, dirs, orphans, calls, replaced>>

\* line 208: os.symlink(extract_to, latest.<tag>): FileExistsError when the
\* name is taken.
symlink(p) ==
    /\ proc[p].pc = "symlink"
    /\ \/ /\ ~tmplink[proc[p].tag_name]
          /\ tmplink' = [tmplink EXCEPT ![proc[p].tag_name] = TRUE]
          /\ Upd(p, [proc[p] EXCEPT !.pc = "rename_link"])
       \/ /\ Upd(p, [Raise(proc[p], IF tmplink[proc[p].tag_name]
                                    THEN "FileExistsError" ELSE "OSError")
                        EXCEPT !.faulted = ~tmplink[proc[p].tag_name]])
          /\ UNCHANGED tmplink
    /\ UNCHANGED <<cache, now, dirs, link, orphans, calls, replaced>>

\* line 209: os.rename(latest.<tag>, latest): FileNotFoundError when the
\* temporary link is gone.
rename_link(p) ==
    /\ proc[p].pc = "rename_link"
    /\ \/ /\ tmplink[proc[p].tag_name]
          /\ link' = proc[p].tag_name
          /\ tmplink' = [tmplink EXCEPT ![proc[p].tag_name] = FALSE]
          /\ Upd(p, [proc[p] EXCEPT !.pc = "samefile"])
       \/ /\ Upd(p, [Raise(proc[p], IF tmplink[proc[p].tag_name]
                                    THEN "OSError" ELSE "FileNotFoundError")
                        EXCEPT !.faulted = tmplink[proc[p].tag_name]])
          /\ UNCHANGED <<link, tmplink>>
    /\ UNCHANGED <<cache, now, dirs, orphans, calls, replaced>>

\* Mutant of GcGuard: the `not` of line 211 is missing, so a superseded
\* directory is never removed.
GcGuardInverted(r, d) ==
    IF r.old_dir = "none" THEN Return(r)
    ELSE IF d[RealPath(r.old_dir)] = "absent" \/ d[r.tag_name] = "absent"
    THEN Raise(r, "FileNotFoundError")
    ELSE IF RealPath(r.old_dir) # r.tag_name THEN Return(r)
    ELSE IF ~ParentIsRuntime(RealPath(r.old_dir)) THEN Return(r)
    ELSE IF ~HasPrefix(RealPath(r.old_dir)) THEN Return(r)
    ELSE [r EXCEPT !.pc = "remove_folder"]

\* Mutant of GcGuard: the parent test of line 212 is missing.
GcGuardNoParentTest(r, d) ==
    IF r.old_dir = "none" THEN Return(r)
    ELSE IF d[RealPath(r.old_dir)] = "absent" \/ d[r.tag_name] = "absent"
    THEN Raise(r, "FileNotFoundError")
    ELSE IF RealPath(r.old_dir) = r.tag_name THEN Return(r)
    ELSE IF ~HasPrefix(RealPath(r.old_dir)) THEN Return(r)
    ELSE [r EXCEPT !.pc = "remove_folder"]

\* Mutant of GcGuard: line 215 removes extract_to instead of
\* old_dir_realpath.
GcGuardRemovesNew(r, d) ==
    IF r.old_dir = "none" THEN Return(r)
    ELSE IF d[RealPath(r.old_dir)] = "absent" \/ d[r.tag_name] = "absent"
    THEN Raise(r, "FileNotFoundError")
    ELSE IF RealPath(r.old_dir) = r.tag_name THEN Return(r)
    ELSE IF ~ParentIsRuntime(RealPath(r.old_dir)) THEN Return(r)
    ELSE IF ~HasPrefix(RealPath(r.old_dir)) THEN Return(r)
    ELSE [r EXCEPT !.pc = "remove_folder", !.old_dir = r.tag_name]

\* lines 211-213: the garbage-collection guard on old_dir_realpath.
\* os.path.samefile stats both paths and raises FileNotFoundError when one is
\* gone; the guard is outside the try block.
GcGuard(r, d) ==
    IF r.old_dir = "none" THEN Return(r)
    ELSE IF d[RealPath(r.old_dir)] = "absent" \/ d[r.tag_name] = "absent"
    THEN Raise(r, "FileNotFoundError")
    ELSE IF RealPath(r.old_dir) = r.tag_name THEN Return(r)
    ELSE IF ~ParentIsRuntime(RealPath(r.old_dir)) THEN Return(r)
    ELSE IF ~HasPrefix(RealPath(r.old_dir)) THEN Return(r)
    ELSE [r EXCEPT !.pc = "remove_folder"]

samefile(p) ==
    /\ proc[p].pc = "samefile"
    /\ Upd(p, GcGuard(proc[p], dirs))
    /\ UNCHANGED <<cache, now, dirs, link, tmplink, orphans, calls, replaced>>

\* lutris.util.system.remove_folder(path): the directory is removed.
RemovedFolder(d, name) == [d EXCEPT ![name] = "absent"]

\* Mutant of RemoveFailed: the try/except of lines 214-217 is missing and
\* the exception of remove_folder leaves download().
RemoveFailedRaises(r) == [Raise(r, "RemoveError") EXCEPT !.faulted = TRUE]

\* lines 216-217: the exception of remove_folder is printed and dropped.
RemoveFailed(r) == [Return(r) EXCEPT !.exc = "RemoveError", !.faulted = TRUE]

\* lines 214-217: remove_folder(old_dir_realpath).
remove_folder(p) ==
    /\ proc[p].pc = "remove_folder"
    /\ \/ /\ dirs' = RemovedFolder(dirs, RealPath(proc[p].old_dir))
          /\ Upd(p, Return(proc[p]))
       \/ /\ Upd(p, RemoveFailed(proc[p]))
          /\ UNCHANGED dirs
    /\ UNCHANGED <<cache, now, link, tmplink, orphans, calls, replaced>>

\* ------------------------------------------------------------ environment
InFlight ==
    {"fetch", "fallback", "mkstemp", "write", "chmod", "rename", "close", "unlink",
     "loads", "exists", "mkdtemp", "get", "extractall", "chmod_dir", "rename_dir",
     "rmtree", "readlink", "remove_if_exists", "symlink", "rename_link", "samefile",
     "remove_folder"}

\* The process dies between two steps; its files stay as they are.
crash(p) ==
    /\ proc[p].pc \in InFlight
    /\ Upd(p, [IdleProc EXCEPT !.pc = "crashed", !.at = proc[p].pc,
                              !.staging = proc[p].staging, !.tmpfile = proc[p].tmpfile,
                              !.startLink = proc[p].startLink])
    /\ UNCHANGED <<cache, now, dirs, link, tmplink, orphans, calls, replaced>>

\* time.time() advances.
tick ==
    /\ now < StartTime + MaxTicks * TickLen
    /\ now' = now + TickLen
    /\ UNCHANGED <<proc, cache, dirs, link, tmplink, orphans, calls, replaced>>

\* Another writer replaces latest.json with a complete document.
replace_cache ==
    /\ replaced < MaxReplace
    /\ replaced' = replaced + 1
    /\ \E d \in ReplaceDocs : cache' = File(d, now, TRUE, FALSE, "none")
    /\ UNCHANGED <<proc, now, dirs, link, tmplink, orphans, calls>>

Step(p) ==
    \/ download_begin(p) \/ fetch(p) \/ fallback(p)
    \/ mkstemp(p) \/ write(p) \/ chmod(p) \/ rename(p) \/ close(p) \/ unlink(p)
    \/ loads(p) \/ exists(p)
    \/ mkdtemp(p) \/ get(p) \/ extractall(p) \/ chmod_dir(p) \/ rename_dir(p) \/ rmtree(p)
    \/ readlink(p) \/ remove_if_exists(p) \/ symlink(p) \/ rename_link(p)
    \/ samefile(p) \/ remove_folder(p)
    \/ crash(p)

\* Concurrent processes start from a runtime root whose latest.json is
\* absent, fresh or stale; the calls overlap within one clock reading.
ConcCaches ==
    {NoFile,
     File(Doc("str", "v1", TRUE), StartTime - TickLen, TRUE, FALSE, "none"),
     File(Doc("str", "v2", TRUE), StartTime - CACHE_TIME, TRUE, FALSE, "none")}
InitConc == Init /\ cache \in ConcCaches

Next == (\E p \in Procs : Step(p)) \/ replace_cache
Spec == InitConc /\ [][Next]_vars

\* One process at a time: the calls of download() follow one another.
NextSeq == (\E p \in SeqProcs : Step(p)) \/ tick \/ replace_cache
SpecSeq == Init /\ [][NextSeq]_vars

\* One process at a time, started on a runtime subdirectory whose `latest`
\* was repointed by somebody else.
InitTamper == InitFiles /\ cache \in ConcCaches /\ link \in Tampered
SpecTamper == InitTamper /\ [][NextSeq]_vars

\* ====================================================================
\* Claims
\* ====================================================================

\* C1: in every reachable state of every interleaving of concurrent
\* download() processes, including processes holding different tags, the
\* link `latest`, whenever it exists, resolves to an existing extracted.<tag>
\* directory whose extraction completed: never dangling, never a removed
\* directory.
C1_ActiveLinkResolves == link # "none" => dirs[link] = "complete"

DaeSteps == {"mkdtemp", "get", "extractall", "chmod_dir", "rename_dir", "rmtree"}

\* C2: when the archive download, the extraction, the chmod or the staging
\* rename of download_and_extract_tar_file fails, the staging directory is
\* gone by the time the error leaves the call, and every step of the call
\* leaves the extracted.<tag> names as they were or turns the call's own
\* name from absent to a complete extraction.
C2_StagingDiscarded ==
    [][\A p \in Procs :
          (proc[p].pc \in DaeSteps /\ proc'[p] # proc[p] /\ proc'[p].pc # "crashed")
          => /\ \/ dirs' = dirs
                \/ /\ dirs[proc[p].tag_name] = "absent"
                   /\ dirs' = [dirs EXCEPT ![proc[p].tag_name] = "complete"]
             /\ proc'[p].pc = "raised" => proc'[p].staging = "absent"]_vars
C2_Witness ==
    \E p \in Procs :
        /\ proc[p].pc = "raised"
        /\ proc[p].at \in {"get", "extractall", "chmod_dir", "rename_dir"}
        /\ proc[p].staging = "absent"
        /\ dirs[proc[p].tag_name] = "absent"

AfterPromotion == {"samefile", "remove_folder"}

\* C3: when download() raises or the process crashes at any step before the
\* temporary symlink has been renamed onto `latest`, `latest` has the target
\* it had when the call began (or is still absent) and still resolves to a
\* complete installation.
C3_LinkUntouched ==
    \A p \in Procs :
        (proc[p].pc \in {"raised", "crashed"} /\ proc[p].at \notin AfterPromotion)
        => /\ link = proc[p].startLink
           /\ link # "none" => dirs[link] = "complete"
C3_Witness ==
    \E p \in Procs :
        /\ proc[p].pc = "raised"
        /\ proc[p].at = "rename_link"
        /\ proc[p].startLink \in Tags
        /\ proc[p].tag_name # proc[p].startLink
        /\ link = proc[p].startLink

\* C4: download() run from an empty runtime root with a working transport
\* (a valid document is fetched) and a working filesystem (no operation
\* fails) returns without error, and then extracted.<tag> is complete,
\* `latest` points to it and latest.<tag> does not exist.
C4_CleanInstall ==
    \A p \in Procs :
        (proc[p].startEmpty /\ ~proc[p].faulted /\ proc[p].pc \in {"done", "raised"})
        => /\ proc[p].pc = "done"
           /\ proc[p].tag_name \in Tags
           /\ dirs[proc[p].tag_name] = "complete"
           /\ link = proc[p].tag_name
           /\ ~tmplink[proc[p].tag_name]

Superseding(p) ==
    /\ proc[p].pc = "done"
    /\ proc[p].startLink \in Tags
    /\ proc[p].tag_name \in Tags
    /\ proc[p].tag_name # proc[p].startLink

\* C5 (as stated): when T1 is installed and active and download() obtains a
\* different tag T2, then after download() returns extracted.T2 exists,
\* `latest` points to it and extracted.T1 has been removed.
C5_Original ==
    \A p \in Procs :
        Superseding(p)
        => /\ dirs[proc[p].tag_name] = "complete"
           /\ link = proc[p].tag_name
           /\ dirs[proc[p].startLink] = "absent"
\* C5 (amended): ... and extracted.T1 has been removed unless its removal
\* failed, in which case the failure was dropped and the directory is left.
C5_Superseded ==
    \A p \in Procs :
        Superseding(p)
        => /\ dirs[proc[p].tag_name] = "complete"
           /\ link = proc[p].tag_name
           /\ dirs[proc[p].startLink] = "absent" \/ proc[p].exc = "RemoveError"
C5_Witness ==
    \E p \in Procs :
        /\ Superseding(p)
        /\ proc[p].exc # "RemoveError"
        /\ dirs[proc[p].startLink] = "absent"
        /\ link = proc[p].tag_name

SameTagAgain(p) ==
    /\ proc[p].prevOk \in Tags
    /\ proc[p].hit
    /\ IF proc[p].pc = "loads" THEN proc[p].ret.tag = proc[p].prevOk
       ELSE proc[p].tag_name = proc[p].prevOk

\* C6: after download() has returned normally for tag T, a second call that
\* gets the same tag T from the cache within its window makes no network
\* request, extracts nothing, creates no temporary link, removes nothing,
\* leaves `latest`, the directories and latest.json unchanged, and returns.
C6_Idempotent ==
    [][\A p \in Procs :
          (SameTagAgain(p)' /\ proc'[p] # proc[p])
          => /\ UNCHANGED <<cache, dirs, link, tmplink>>
             /\ proc'[p].pc \in {"loads", "exists", "readlink", "done"}
             /\ proc'[p].net = 0
             /\ proc'[p].staging = "absent" /\ proc'[p].tmpfile = "absent"
             /\ link = proc'[p].prevOk]_vars
C6_Witness == \E p \in Procs : SameTagAgain(p) /\ proc[p].pc = "done"

Starting(p) == proc[p].pc \in {"idle", "done", "raised", "crashed"} /\ proc'[p] # proc[p]

\* C7: whenever latest.json exists and its age is below the cache window,
\* _download_latest_release_json makes no network request and returns the
\* parsed content of the cached document.
C7_CacheHit ==
    [][\A p \in Procs :
          (Starting(p) /\ cache.present /\ CacheIsFresh(cache, now))
          => /\ proc'[p].pc = "loads"
             /\ proc'[p].ret = json_load(cache.doc)
             /\ proc'[p].net = 0]_vars

FallingBack(p) ==
    proc[p].pc = "fallback" /\ proc'[p] # proc[p] /\ proc'[p].pc # "crashed"

\* C8: whenever latest.json exists (of any age) and the fresh fetch or its
\* validation has failed, _download_latest_release_json returns the parsed
\* content of the cached file instead of raising, and leaves the file
\* unchanged.
C8_StaleFallback ==
    [][\A p \in Procs :
          (FallingBack(p) /\ cache.present)
          => /\ proc'[p].pc = "loads"
             /\ proc'[p].ret = json_load(cache.doc)
             /\ cache' = cache]_vars

TryBlockErrors == {"FetchError", "TypeError", "KeyError", "ValueError", "OSError"}

\* C9: when latest.json does not exist and the fetch or its validation has
\* failed, _download_latest_release_json raises the saved fetch/validation
\* exception, not a secondary FileNotFoundError, and no cache file is
\* created.
C9_HardFailure ==
    [][\A p \in Procs :
          /\ (FallingBack(p) /\ ~cache.present)
             => /\ proc'[p].pc = "raised"
                /\ proc'[p].exc = proc[p].exc
                /\ proc'[p].exc \in TryBlockErrors
                /\ ~cache'.present
          /\ (proc[p].pc = "fetch" /\ proc'[p].pc = "fallback") => cache' = cache]_vars
C9_Witness ==
    \E p \in Procs :
        /\ proc[p].pc = "raised"
        /\ proc[p].at = "fallback"
        /\ proc[p].exc \in {"FetchError", "KeyError", "ValueError", "TypeError"}
        /\ ~cache.present

\* C10: _download_latest_release_json lets an error out only when no
\* latest.json exists and the attempt to fetch, validate and store a fresh
\* document failed: whenever the file exists it returns metadata.
C10_RaisesOnlyWithoutCache ==
    [][\A p \in Procs :
          (proc'[p] # proc[p] /\ proc'[p].pc = "raised"
             /\ proc'[p].at \in {"open_cache", "fallback"})
          => /\ ~cache.present
             /\ proc'[p].exc \in TryBlockErrors]_vars

\* C11: after a fresh fetch whose response passed validation,
\* _download_latest_release_json has stored the response in latest.json and
\* returns the parsed document of that response, the value a later cache hit
\* would return.
C11_FreshFetchReturnsParsed ==
    [][\A p \in Procs :
          (proc[p].pc = "close" /\ proc'[p].pc = "loads")
          => /\ proc'[p].ret = json_load(proc[p].content)
             /\ cache' = cache \/ cache'.doc = proc[p].content]_vars

\* C12: a fetched document without a tag, with an empty tag or without a
\* matching asset is never written to latest.json: whenever the program
\* creates or overwrites the file, the document it stores has a non-empty tag
\* and a matching asset and comes from a fresh fetch that passed validation.
C12_OnlyValidCached ==
    [][\A p \in Procs :
          (proc[p].pc = "rename" /\ proc'[p].pc = "close")
          => /\ cache'.doc = proc[p].content
             /\ validate_release_info(json_load(cache'.doc)) = "none"
             /\ cache'.doc.tag \notin {"", "missing"}
             /\ cache'.doc.asset]_vars

\* C13: whatever `latest` pointed at before, a tampered target outside the
\* runtime subdirectory or without the `extracted.` prefix included, the only
\* directory download() removes while promoting is the resolved previous
\* target, and only when its parent is the runtime subdirectory, its name
\* starts with `extracted.` and it is not the directory just promoted.
C13_SafeGarbageCollection ==
    [][\A n \in Paths :
          (dirs[n] # "absent" /\ dirs'[n] = "absent")
          => \E p \in Procs :
                /\ proc[p].pc = "remove_folder"
                /\ n = RealPath(proc[p].old_dir)
                /\ ParentIsRuntime(n)
                /\ HasPrefix(n)
                /\ n # proc[p].tag_name]_vars
C13_Witness ==
    \E p \in Procs :
        /\ proc[p].pc = "done"
        /\ proc[p].startLink = "outside"
        /\ link = proc[p].tag_name
        /\ dirs["outside"] = "complete"

\* C14: when two processes repointed `latest` from the same old version and
\* both go on to garbage-collect it, the one that comes second and finds the
\* directory already removed finishes download() normally.
C14_AlreadyGoneIsSuccess ==
    [][\A p \in Procs :
          (/\ proc[p].pc = "samefile"
           /\ proc'[p] # proc[p] /\ proc'[p].pc # "crashed"
           /\ proc[p].old_dir \in Tags
           /\ proc[p].old_dir # proc[p].tag_name
           /\ dirs[proc[p].old_dir] = "absent"
           /\ dirs[proc[p].tag_name] = "complete"
           /\ \E q \in Procs \ {p} :
                 proc[q].pc = "done" /\ proc[q].startLink = proc[p].old_dir)
          => proc'[p].pc = "done"]_vars

\* C15: when removing the superseded directory fails, the error is caught
\* and dropped: download() returns normally and `latest` points to the
\* directory just promoted.
C15_RemovalFailureDropped ==
    [][\A p \in Procs :
          (/\ proc[p].pc = "remove_folder"
           /\ proc'[p] # proc[p] /\ proc'[p].pc # "crashed"
           /\ dirs'[RealPath(proc[p].old_dir)] # "absent")
          => /\ proc'[p].pc = "done"
             /\ link' = proc[p].tag_name
             /\ dirs'[link'] = "complete"]_vars
C15_Witness ==
    \E p \in Procs :
        /\ proc[p].pc = "done"
        /\ proc[p].exc = "RemoveError"
        /\ proc[p].startLink \in Tags
        /\ dirs[proc[p].startLink] = "complete"
        /\ link = proc[p].tag_name

LostRace(p) ==
    /\ proc[p].pc = "rename_dir"
    /\ proc'[p] # proc[p] /\ proc'[p].pc # "crashed"
    /\ ~RenameDirOk(dirs, proc[p].tag_name)

\* C16: when two processes run download() for the same tag T while
\* extracted.T does not exist, extracted.T once visible is one complete
\* extraction, no staging directory is left when both calls are over, and
\* the process whose staging rename finds extracted.T already there goes on
\* as if the directory had been installed instead of raising.
C16_InstallRaceHarmless ==
    [][\A p \in Procs :
          /\ \A t \in Tags : dirs'[t] \in {"absent", "complete"}
          /\ proc'[p].pc \in {"done", "raised"} => proc'[p].staging = "absent"
          /\ LostRace(p) => proc'[p].pc = "readlink"]_vars

InSafeWrite == {"write", "chmod", "rename", "unlink"}

\* C17: in every reachable state, failures and concurrent writers included,
\* latest.json is absent, or holds its former content, or holds the complete
\* content of one writer, never part of it; and once safe_write_file has
\* failed before its rename and returned, its temporary file is gone.
C17_NeverPartial ==
    /\ cache.present => ~cache.torn
    /\ \A p \in Procs :
          proc[p].pc \notin InSafeWrite \cup {"crashed"} => proc[p].tmpfile = "absent"

\* C18: in one process, over any sequence of download() calls with any tags
\* and with failures at any step, an extracted.<tag> directory is removed
\* only after `latest` has been renamed onto the new target and never when it
\* is that target, so that in every state `latest`, if it exists, resolves to
\* an existing complete directory.
C18_RemovedOnlyAfterRepoint ==
    [][/\ \A t \in Tags :
             (dirs[t] # "absent" /\ dirs'[t] = "absent")
             => \E p \in Procs :
                   /\ proc[p].pc = "remove_folder"
                   /\ link = proc[p].tag_name
                   /\ t # proc[p].tag_name
       /\ link' # "none" => dirs'[link'] = "complete"]_vars
C18_Witness ==
    \E p \in Procs :
        /\ proc[p].pc = "done"
        /\ proc[p].prevOk \in Tags
        /\ proc[p].tag_name \in Tags \ {proc[p].prevOk}
        /\ link = proc[p].tag_name
        /\ dirs[proc[p].tag_name] = "complete"
        /\ dirs[proc[p].prevOk] = "absent"

PromotionSteps == {"remove_if_exists", "symlink", "rename_link", "samefile", "remove_folder"}

\* Both processes have been promoting the same installed tag, each having
\* read `latest` before the other repointed it, and both calls are over
\* without a failure of the file system.
PromotedTogether(p, q) ==
    /\ p # q
    /\ proc[p].tag_name \in Tags
    /\ proc[q].tag_name = proc[p].tag_name
    /\ proc[p].startLink = proc[q].startLink
    /\ \A x \in {p, q} :
          /\ ~proc[x].faulted
          /\ proc[x].net = 0
          /\ \/ proc[x].pc = "done" /\ proc[x].exc = "none"
             \/ proc[x].pc = "raised" /\ proc[x].at \in PromotionSteps

\* C19: when two processes promote the same already installed tag T
\* concurrently, both having read `latest` before either repointed it, then
\* whatever the order of their remove, symlink and rename steps on latest.T,
\* both calls return without error and `latest` points to extracted.T.
C19_SharedTempLink ==
    \A p, q \in Procs :
        PromotedTogether(p, q)
        => /\ proc[p].pc = "done" /\ proc[q].pc = "done"
           /\ link = proc[p].tag_name

\* The call got tag T while a latest.T left by an earlier call was on disk,
\* and it is over without a failure of the file system.
AfterLeftover(p) ==
    /\ proc[p].tag_name \in proc[p].startTmp
    /\ ~proc[p].faulted
    /\ proc[p].pc \in {"done", "raised"}

\* C20: when an earlier download() died after creating latest.T and before
\* renaming it, a later download() for the same tag T running alone succeeds
\* and ends with `latest` pointing to extracted.T and latest.T absent.
C20_LeftoverTempLink ==
    \A p \in Procs :
        AfterLeftover(p)
        => /\ proc[p].pc = "done"
           /\ link = proc[p].tag_name
           /\ dirs[proc[p].tag_name] = "complete"
           /\ ~tmplink[proc[p].tag_name]
C20_Witness ==
    \E p \in Procs :
        /\ AfterLeftover(p)
        /\ proc[p].pc = "done"
        /\ link = proc[p].tag_name
        /\ ~tmplink[proc[p].tag_name]

====
